---- MODULE Spec2Model ----
(***************************************************************************)
(* Streaming chat client of a700cli: the Transport Selector of main(), the *)
(* WebSocketClient streaming session (core/client.py), the tool-call       *)
(* parser (core/mcp.py) and the blocking call send_message_http.           *)
(*                                                                         *)
(* Text is a sequence of tokens: a markup marker such as "<tool_use>" or a *)
(* run of ordinary characters is one token.  Two threads act: the caller   *)
(* thread walks through main()/send_message (variable pc), the socket.io   *)
(* thread runs the event handlers whenever the transport is connected.     *)
(***************************************************************************)
EXTENDS Integers, Sequences, FiniteSets, TLC

\* ---------------------------------------------------------------- bounds
\* inbound events the transport delivers during one exchange
MaxEvents == 3

\* exchanges of one run of the interactive loop
MaxTurns == 2

\* callbacks of an earlier exchange's connection that run late
MaxLate == 1

\* ---------------------------------------------------------------- values
\* Python's None where a scalar (finish_reason) is expected
None == "None"

\* Python's None where a str is expected (a text is a sequence of tokens)
NoneText == <<"<None>">>

\* the empty str "" (a text is a sequence of tokens)
EmptyStr == <<>>

\* the needle of the Transport Selector's substring test
ConnectionFailedSig == "Connection failed"

\* the text of the exception raised by sio.connect
ConnectExcText == <<"refused">>

\* f"Connection failed: {e}"
ConnectionFailedMsg(e) == <<ConnectionFailedSig, ": ">> \o e

NotConnectedMsg == <<"Failed to connect to WebSocket endpoint">>

TimedOutMsg == <<"Response timed out">>

IncompleteMsg == <<"Response incomplete">>

\* needle in haystack, for a needle that is one token
Contains(haystack, needle) == \E i \in 1..Len(haystack) : haystack[i] = needle

\* Python truthiness of an Optional[str]
Truthy(s) == s # NoneText /\ s # EmptyStr

\* AgentResponse(content, citations=None, error=None, mcp_results=None)
AgentResponse(content, cits, error, mcp) ==
    [content |-> content, citations |-> cits, error |-> error, mcp_results |-> mcp]

\* ---------------------------------------------------------------- inputs
PlainText == <<"Just text.">>

ToolBlock == <<"<tool_use>", "<server>", "s1", "</server>",
               "<tool>", "t1", "</tool>", "</tool_use>">>

\* a block without <tool>
MalformedBlock == <<"<tool_use>", "<server>", "only", "</tool_use>">>

\* chat_message_response payloads (content, finish_reason, citations)
ChatEvents ==
    { [type |-> "chat", content |-> PlainText,  finish_reason |-> None,         citations |-> <<>>],
      [type |-> "chat", content |-> PlainText,  finish_reason |-> "stop",       citations |-> <<"c1">>],
      [type |-> "chat", content |-> EmptyStr,   finish_reason |-> "stop",       citations |-> <<>>],
      [type |-> "chat", content |-> ToolBlock,  finish_reason |-> "tool_calls", citations |-> <<>>],
      [type |-> "chat", content |-> PlainText,  finish_reason |-> "tool_calls", citations |-> <<>>],
      [type |-> "chat", content |-> ToolBlock,  finish_reason |-> "end_turn",   citations |-> <<>>],
      [type |-> "chat", content |-> PlainText,  finish_reason |-> "end_turn",   citations |-> <<>>],
      [type |-> "chat", content |-> MalformedBlock, finish_reason |-> "end_turn", citations |-> <<>>],
      [type |-> "chat", content |-> PlainText,  finish_reason |-> "length",     citations |-> <<>>] }

\* error payloads: a mapping with or without an 'error' key, or a bare value
ErrorEvents ==
    { [type |-> "error", isdict |-> TRUE,  error |-> <<"boom">>, repr |-> <<"{'error': 'boom'}">>],
      [type |-> "error", isdict |-> TRUE,  error |-> <<"upstream: ", ConnectionFailedSig>>,
                                           repr |-> <<"{'error': 'upstream: Connection failed'}">>],
      [type |-> "error", isdict |-> TRUE,  error |-> NoneText, repr |-> <<"{'code': 401}">>],
      [type |-> "error", isdict |-> FALSE, error |-> NoneText, repr |-> <<"server down">>] }

\* error payloads that carry a numeric 'code' next to the 'error' text
\* (code 0: the key is absent)
CodedErrorEvents ==
    { [type |-> "error", isdict |-> TRUE, code |-> 401, error |-> <<"Unauthorized">>,
       repr |-> <<"{'code': 401, 'error': 'Unauthorized'}">>],
      [type |-> "error", isdict |-> TRUE, code |-> 400,
       error |-> <<"Agent is ", "not publically shared">>,
       repr |-> <<"{'code': 400, 'error': 'Agent is not publically shared'}">>],
      [type |-> "error", isdict |-> TRUE, code |-> 400, error |-> <<"Unauthorized">>,
       repr |-> <<"{'code': 400, 'error': 'Unauthorized'}">>],
      [type |-> "error", isdict |-> TRUE, code |-> 0, error |-> <<"Unauthorized">>,
       repr |-> <<"{'error': 'Unauthorized'}">>] }

\* mcp_tool_complete_in_content payloads: result_block and json.loads of its
\* second element ("invalid" when it does not decode)
McpEvents ==
    { [type |-> "mcp", islist |-> TRUE,  len |-> 2, parsed |-> "r1",      block |-> "b1"],
      [type |-> "mcp", islist |-> TRUE,  len |-> 2, parsed |-> "invalid", block |-> "b2"],
      [type |-> "mcp", islist |-> FALSE, len |-> 0, parsed |-> "invalid", block |-> "b3"] }

\* outcomes of the blocking call: (content found in the 200 body, error text)
HttpOutcomes ==
    { [content |-> <<"HTTP response">>, error |-> NoneText],
      [content |-> EmptyStr,            error |-> <<"HTTP 500: ", "oops">>] }


\* ------------------------------------------------ the tool-call parser
\* whitespace tokens, removed by str.strip() at both ends
Whitespace == {" ", "\n"}

\* str.lower() of a marker token (re.IGNORECASE)
Lower(t) ==
    CASE t = "<TOOL_USE>"  -> "<tool_use>"
      [] t = "</TOOL_USE>" -> "</tool_use>"
      [] t = "<Server>"    -> "<server>"
      [] t = "</Server>"   -> "</server>"
      [] t = "<Tool>"      -> "<tool>"
      [] t = "</Tool>"     -> "</tool>"
      [] OTHER             -> t

OpenTag(tag) ==
    CASE tag = "tool_use"  -> "<tool_use>"
      [] tag = "server"    -> "<server>"
      [] tag = "tool"      -> "<tool>"
      [] tag = "arguments" -> "<arguments>"
      [] tag = "id"        -> "<id>"

CloseTag(tag) ==
    CASE tag = "tool_use"  -> "</tool_use>"
      [] tag = "server"    -> "</server>"
      [] tag = "tool"      -> "</tool>"
      [] tag = "arguments" -> "</arguments>"
      [] tag = "id"        -> "</id>"

\* index of the first token at or after from that matches marker, 0 if none
FirstFrom(s, from, marker) ==
    LET I == { i \in from..Len(s) : Lower(s[i]) = marker }
    IN  IF I = {} THEN 0 ELSE CHOOSE i \in I : \A j \in I : i <= j

RECURSIVE LStrip(_)
LStrip(s) == IF s # <<>> /\ Head(s) \in Whitespace THEN LStrip(Tail(s)) ELSE s

RECURSIVE RStrip(_)
RStrip(s) ==
    IF s # <<>> /\ s[Len(s)] \in Whitespace THEN RStrip(SubSeq(s, 1, Len(s) - 1)) ELSE s

\* str.strip()
Strip(s) == RStrip(LStrip(s))

\* index of the last token that matches marker, 0 if none
LastOf(s, marker) ==
    LET I == { i \in 1..Len(s) : Lower(s[i]) = marker }
    IN  IF I = {} THEN 0 ELSE CHOOSE i \in I : \A j \in I : j <= i

\* an extraction that takes the last occurrence of the field
_extract_tag_last(block, tag) ==
    LET a == LastOf(block, OpenTag(tag))
        c == IF a = 0 THEN 0 ELSE FirstFrom(block, a + 1, CloseTag(tag))
    IN  IF a = 0 \/ c = 0 THEN EmptyStr ELSE Strip(SubSeq(block, a + 1, c - 1))

\* _extract_tag: the non-greedy search <tag>([\s\S]*?)</tag>, group 1 stripped
_extract_tag(block, tag) ==
    LET a == FirstFrom(block, 1, OpenTag(tag))
        c == IF a = 0 THEN 0 ELSE FirstFrom(block, a + 1, CloseTag(tag))
    IN  IF a = 0 \/ c = 0 THEN EmptyStr ELSE Strip(SubSeq(block, a + 1, c - 1))

\* an integer literal of 5000 digits (over sys.int_info.default_max_str_digits)
HugeInt == "1111...1 (5000 digits)"

\* an array nested 100000 deep (over the interpreter's recursion limit)
DeepNesting == "[[[[...]]]] (100000 levels)"

\* json.loads of an arguments text: a JSON object, other valid JSON, a
\* json.JSONDecodeError ("invalid"), or an exception of another class
\* ("raises": ValueError for the integer, RecursionError for the nesting)
JsonKind(text) ==
    CASE text = <<"{}">>              -> "object"
      [] text = <<"{\"k\":\"v\"}">>   -> "object"
      [] text = <<"[1,2]">>           -> "other"
      [] text = <<"null">>            -> "other"
      [] text = << HugeInt >>         -> "raises"
      [] text = << DeepNesting >>     -> "raises"
      [] OTHER                        -> "invalid"

EmptyMapping == [raw |-> FALSE, v |-> <<"{}">>]

\* _parse_one_block: <<ToolCall>>, or <<>> when it raises (ValueError for a
\* missing field; whatever json.loads raises besides json.JSONDecodeError)
_parse_one_block(block) ==
    LET server   == _extract_tag(block, "server")
        tool     == _extract_tag(block, "tool")
        args_raw == _extract_tag(block, "arguments")
        id_raw   == _extract_tag(block, "id")
        call_id  == IF id_raw # EmptyStr THEN id_raw ELSE NoneText
        kind     == JsonKind(Strip(args_raw))
        arguments ==
            IF args_raw = EmptyStr THEN EmptyMapping
            ELSE IF kind = "object"
                   THEN [raw |-> FALSE, v |-> Strip(args_raw)]
                   ELSE [raw |-> TRUE, v |-> args_raw]
    IN  IF server = EmptyStr \/ tool = EmptyStr
          THEN <<>>
          ELSE IF args_raw # EmptyStr /\ kind = "raises"
                 THEN <<>>
                 ELSE << [server |-> server, tool |-> tool,
                          arguments |-> arguments, id |-> call_id] >>

\* TOOL_USE_PATTERN.findall(content) from position p on: non-overlapping
\* leftmost matches of <tool_use>[\s\S]*?</tool_use>
RECURSIVE FindAllFrom(_, _)
FindAllFrom(content, p) ==
    LET a == FirstFrom(content, p, OpenTag("tool_use"))
        c == IF a = 0 THEN 0 ELSE FirstFrom(content, a + 1, CloseTag("tool_use"))
    IN  IF a = 0 \/ c = 0 THEN <<>>
        ELSE << SubSeq(content, a, c) >> \o FindAllFrom(content, c + 1)

RECURSIVE ParseBlocks(_)
ParseBlocks(blocks) ==
    IF blocks = <<>> THEN <<>>
    ELSE _parse_one_block(Head(blocks)) \o ParseBlocks(Tail(blocks))

\* parse_tool_use_blocks
parse_tool_use_blocks(content) == ParseBlocks(FindAllFrom(content, 1))

\* -------------------------------------------- inputs of the parser
\* number of fragments a parsed text is made of
MaxFrags == 2

\* <tool_use> s1 / t1 with the given arguments and id fields
BlockWith(fields) ==
    <<"<tool_use>", "<server>", "s1", "</server>", "<tool>", "t1", "</tool>">>
        \o fields \o <<"</tool_use>">>

Arguments(text) == <<"<arguments>">> \o text \o <<"</arguments>">>

Fragments ==
    { PlainText,
      ToolBlock,
      <<"<tool_use>", "<server>", "s2", "</server>", "<tool>", "t2", "</tool>",
        "<arguments>", "{\"k\":\"v\"}", "</arguments>", "<id>", "42", "</id>", "</tool_use>">>,
      BlockWith(Arguments(<<"{}">>)),
      BlockWith(Arguments(<<"[1,2]">>)),
      BlockWith(Arguments(<<"{bad">>)),
      BlockWith(Arguments(<<" ">>)),
      BlockWith(Arguments(<< HugeInt >>)),
      BlockWith(Arguments(<< DeepNesting >>)),
      MalformedBlock,
      <<"<tool_use>", "<tool>", "t1", "</tool>", "</tool_use>">>,
      <<"<tool_use>", "<server>", " ", "</server>", "<tool>", "t1", "</tool>", "</tool_use>">>,
      <<"<tool_use>", "<server>", "x", "</server>">>,
      <<"<TOOL_USE>", "<Server>", "s3", "</Server>", "<Tool>", "t3", "</Tool>", "</TOOL_USE>">>,
      <<"<tool_use>", "<tool>", "\n", "t4", "</tool>", "<server>", " ", "s4", " ", "</server>",
        "</tool_use>">>,
      <<"</tool_use>">> }

RECURSIVE Flatten(_)
Flatten(seqs) == IF seqs = <<>> THEN <<>> ELSE Head(seqs) \o Flatten(Tail(seqs))

\* texts handed to the parser: up to MaxFrags fragments in a row
ParserInputs ==
    { Flatten(fs) : fs \in UNION { [1..n -> Fragments] : n \in 0..MaxFrags } }

\* ----------------------------------------------------------------- state
VARIABLES
    args_streaming,        \* args.streaming
    WEBSOCKET_AVAILABLE,   \* core/client.py: the socketio import succeeded
    pc,                    \* position of the caller thread
    response_complete, full_response, citations, mcp_results,
    error_occurred, error_message,
    response_event,        \* threading.Event flag
    sio_connected,         \* self.sio.connected
    conversation_history,  \* ConversationManager.conversation_history
    sm_result,             \* <<value returned by send_message>>, <<>> before
    response_data,         \* main(): <<response_data>>, <<>> before it is bound
    delivered,             \* events handed to the handlers, in delivery order
    http_calls,            \* calls of send_message_http in this exchange
    disconnect_calls,      \* calls of self.sio.disconnect()
    executed,              \* ToolCalls handed to McpExecutor.execute
    connect_outcome,       \* how self.sio.connect ended (None before the call)
    http_returned,         \* values send_message_http returned, in call order
    timed_out,             \* response_event.wait returned False
    raised,                \* exception that reached main()'s try block (None if none)
    interactive_mode,      \* main(): interactive_mode (the exchange is one loop turn)
    content,               \* parse_tool_use_blocks: its argument
    results,               \* parse_tool_use_blocks: << returned list >>, <<>> before the call
    mcp_executor,          \* the McpExecutor's attributes
    posted,                \* requests.post calls made by the executor, in order
    mcp_responses,         \* what each of those calls met (response or fault)
    exec_returned,         \* values McpExecutor.execute returned, in call order
    exec_raised,           \* an exception left McpExecutor.execute
    emitted,               \* payloads of sio.emit('send_chat_message', ...), in order
    api_call,              \* the API function running: get_agent_config or send_message_http
    with_session_manager,  \* its session_manager argument is not None
    session_data,          \* SessionManager.session_data
    session_file,          \* what .agent700_session.dat holds
    api_requests,          \* requests the API function sent: bearer token and what each met
    refresh_calls,         \* calls of refresh_access_token: posted, met, returned, session before
    agent_uuid,            \* main(): agent_uuid (None while there is none)
    uuid_entered,          \* prompt_agent_uuid returned a UUID during this run
    uuid_just_setup,       \* main(): uuid_just_setup
    user_message_given,    \* main(): user_message is non-empty
    args_interactive,      \* args.interactive
    exit_message,          \* what main() printed before sys.exit(1), None otherwise
    prev_client,           \* << the WebSocketClient of the exchange before >>, <<>> if none
    late_delivered,        \* events its connection delivered after its exchange
    turn                   \* number of the exchange of the interactive loop

\* state of the executor
executor_vars == << mcp_executor, posted, mcp_responses, exec_returned, exec_raised >>

\* state of the token refresh
auth_vars == << api_call, with_session_manager, session_data, session_file,
                api_requests, refresh_calls >>

\* state of main() before the first exchange
startup_vars == << agent_uuid, uuid_entered, uuid_just_setup, user_message_given,
                   args_interactive, exit_message >>

\* the interactive loop: the client object of the exchange before
loop_vars == << prev_client, late_delivered, turn >>

\* state of the parser, the executor, the token refresh, the start-up and
\* the loop, which one streaming session never touches
side == << content, results, executor_vars, auth_vars, startup_vars, loop_vars >>

vars == << interactive_mode, side, emitted,
           args_streaming, WEBSOCKET_AVAILABLE, pc, response_complete,
           full_response, citations, mcp_results, error_occurred,
           error_message, response_event, sio_connected,
           conversation_history, sm_result, response_data, delivered,
           http_calls, disconnect_calls, executed, connect_outcome,
           http_returned, timed_out, raised >>

client == << response_complete, full_response, citations, mcp_results,
             error_occurred, error_message >>

UserMessage == <<"test message">>

\* the agent configuration main() hands to send_message
agent_config ==
    [masterPrompt |-> <<"You are a helpful agent.">>, model |-> "gpt-4o",
     enableMcp |-> FALSE]

\* send_message: messages = [{"role": "user", "content": user_message}] and
\* the payload built around it
ChatPayload ==
    [messages |-> << [role |-> "user", content |-> UserMessage] >>,
     streamResponses |-> TRUE,
     masterPrompt |-> agent_config.masterPrompt,
     model |-> agent_config.model]

\* ConversationManager.add_user_message / add_agent_message
add_user_message(h, m) == Append(h, [role |-> "user", content |-> m])

add_agent_message(h, m) == Append(h, [role |-> "agent", content |-> m])

\* attributes WebSocketClient.__init__ creates; no method adds another
ClientAttrs == { "api_base_url", "access_token", "console", "sio",
                 "response_complete", "full_response", "citations",
                 "mcp_results", "error_occurred", "error_message",
                 "response_event" }

\* McpExecutor("https://api.agent700.ai", "token", "agent-123", {}) after __init__
McpExecutorAttrs ==
    [api_base_url |-> "https://api.agent700.ai/api", access_token |-> "token",
     agent_uuid |-> "agent-123", agent_config |-> "{}", timeout |-> 30]

\* a session as main() saves it after login
SessionOf(cookies) ==
    [access_token |-> "old_token", email |-> "u@example.com", cookies |-> cookies]

\* load_session() when the file is missing or unreadable: {}
EmptySession == [access_token |-> None, email |-> None, cookies |-> None]

\* no API function is running; SessionManager() has loaded the file
AuthIdle ==
    /\ api_call = None
    /\ with_session_manager = FALSE
    /\ session_data = SessionOf("rt_abc")
    /\ session_file = session_data
    /\ api_requests = <<>>
    /\ refresh_calls = <<>>

\* main() is past the start-up: the agent is loaded, a message was given
StartupDone ==
    /\ agent_uuid = "uuid-from-env"
    /\ uuid_entered = FALSE
    /\ uuid_just_setup = FALSE
    /\ user_message_given = TRUE
    /\ args_interactive = interactive_mode
    /\ exit_message = None

\* the first exchange: no WebSocketClient was built before
NoEarlierExchange ==
    /\ prev_client = <<>>
    /\ late_delivered = <<>>
    /\ turn = 1

\* the executor is constructed and has not been called
ExecutorConstructed ==
    /\ mcp_executor = McpExecutorAttrs
    /\ posted = <<>>
    /\ mcp_responses = <<>>
    /\ exec_returned = <<>>
    /\ exec_raised = FALSE

Init ==
    /\ NoEarlierExchange
    /\ args_streaming \in BOOLEAN
    /\ WEBSOCKET_AVAILABLE \in BOOLEAN
    /\ pc = "select"
    /\ response_complete = FALSE
    /\ full_response = EmptyStr
    /\ citations = <<>>
    /\ mcp_results = <<>>
    /\ error_occurred = FALSE
    /\ error_message = EmptyStr
    /\ response_event = FALSE
    /\ sio_connected = FALSE
    /\ conversation_history = <<>>
    /\ sm_result = <<>>
    /\ response_data = <<>>
    /\ delivered = <<>>
    /\ http_calls = 0
    /\ disconnect_calls = 0
    /\ executed = <<>>
    /\ connect_outcome = None
    /\ http_returned = <<>>
    /\ timed_out = FALSE
    /\ raised = None
    /\ interactive_mode \in BOOLEAN
    /\ emitted = <<>>
    /\ content = EmptyStr
    /\ results = <<>>
    /\ ExecutorConstructed
    /\ AuthIdle
    /\ StartupDone

\* ------------------------------------------------- the blocking call
\* send_message_http: one POST; on content the exchange is logged
HttpReturn(o) ==
    IF Truthy(o.content) /\ ~Truthy(o.error)
      THEN AgentResponse(o.content, <<>>, NoneText, <<>>)
      ELSE AgentResponse(EmptyStr, <<>>, o.error, <<>>)

\* response_data = send_message_http(...)
send_message_http(o) ==
    /\ http_calls' = http_calls + 1
    /\ http_returned' = Append(http_returned, HttpReturn(o))
    /\ response_data' = << HttpReturn(o) >>
    /\ conversation_history' =
         IF Truthy(o.content) /\ ~Truthy(o.error)
           THEN add_agent_message(add_user_message(conversation_history, UserMessage),
                                  o.content)
           ELSE conversation_history

\* --------------------------------------------- the Transport Selector
\* a selector that does not look at whether the streaming dependency loaded
UseStreamingIgnoringImport == args_streaming

\* main(): the condition of the selector, if args.streaming and WEBSOCKET_AVAILABLE
UseStreaming == args_streaming /\ WEBSOCKET_AVAILABLE

\* main(): if args.streaming and WEBSOCKET_AVAILABLE; in the interactive loop
\* conversation_manager.add_user_message(user_input) comes first
SelectTransport ==
    /\ pc = "select"
    /\ pc' = IF UseStreaming THEN "ws_new" ELSE "http_only"
    /\ conversation_history' =
         IF interactive_mode
           THEN add_user_message(conversation_history, UserMessage)
           ELSE conversation_history
    /\ UNCHANGED << args_streaming, WEBSOCKET_AVAILABLE, interactive_mode, side, emitted, client, response_event,
                    sio_connected, sm_result, response_data,
                    delivered, http_calls, http_returned, disconnect_calls, executed, connect_outcome,
                    timed_out, raised >>

\* main(): the else branch, the blocking call alone
HttpOnly ==
    /\ pc = "http_only"
    /\ \E o \in HttpOutcomes : send_message_http(o)
    /\ pc' = "done"
    /\ UNCHANGED << args_streaming, WEBSOCKET_AVAILABLE, interactive_mode, side, emitted, client, response_event,
                    sio_connected, sm_result, delivered, disconnect_calls, executed,
                    connect_outcome, timed_out, raised >>

\* main(): ws_client = WebSocketClient(...); socketio.Client() may raise
NewClient ==
    /\ pc = "ws_new"
    /\ \E ok \in BOOLEAN :
         /\ pc' = IF ok THEN "sm_connect" ELSE "except"
         /\ raised' = IF ok THEN raised ELSE "ClientInitError"
         /\ IF ok
              THEN /\ response_complete' = FALSE
                   /\ full_response' = EmptyStr
                   /\ citations' = <<>>
                   /\ mcp_results' = <<>>
                   /\ error_occurred' = FALSE
                   /\ error_message' = EmptyStr
                   /\ response_event' = FALSE
              ELSE UNCHANGED << client, response_event >>
    /\ UNCHANGED << args_streaming, WEBSOCKET_AVAILABLE, interactive_mode, side, emitted,
                    sio_connected, conversation_history, sm_result, response_data,
                    delivered, http_calls, http_returned, disconnect_calls, executed,
                    connect_outcome, timed_out >>

\* a selector that compares the whole error text with the signature
IsFallbackTriggerExact(r) == r.error = << ConnectionFailedSig >>

\* main(): if response_data.error and "Connection failed" in response_data.error
IsFallbackTrigger(r) == Truthy(r.error) /\ Contains(r.error, ConnectionFailedSig)

\* main(): the test on send_message's result and the fallback inside the try
SelectorCheck ==
    /\ pc = "sel_check"
    /\ IF IsFallbackTrigger(sm_result[1])
         THEN \E o \in HttpOutcomes : send_message_http(o)
         ELSE /\ response_data' = sm_result
              /\ UNCHANGED << http_calls, http_returned, conversation_history >>
    /\ pc' = "done"
    /\ UNCHANGED << args_streaming, WEBSOCKET_AVAILABLE, interactive_mode, side, emitted, client, response_event,
                    sio_connected, sm_result, delivered, disconnect_calls, executed,
                    connect_outcome, timed_out, raised >>

\* main(): except Exception -> the blocking call
SelectorExcept ==
    /\ pc = "except"
    /\ \E o \in HttpOutcomes : send_message_http(o)
    /\ pc' = "done"
    /\ UNCHANGED << args_streaming, WEBSOCKET_AVAILABLE, interactive_mode, side, emitted, client, response_event,
                    sio_connected, sm_result, delivered, disconnect_calls, executed,
                    connect_outcome, timed_out, raised >>

\* ------------------------------------- WebSocketClient.send_message
\* reset of the accumulators, then self.sio.connect(...) inside the try
Connect ==
    /\ pc = "sm_connect"
    /\ response_complete' = FALSE
    /\ full_response' = EmptyStr
    /\ citations' = <<>>
    /\ mcp_results' = <<>>
    /\ error_occurred' = FALSE
    /\ error_message' = EmptyStr
    /\ response_event' = FALSE
    /\ \E outcome \in {"raise", "up", "down"} :
         CASE outcome = "raise" ->
                /\ sm_result' = << AgentResponse(EmptyStr, <<>>,
                                       ConnectionFailedMsg(ConnectExcText), <<>>) >>
                /\ pc' = "sel_check"
                /\ connect_outcome' = outcome
                /\ UNCHANGED sio_connected
           [] outcome = "up" ->
                /\ sio_connected' = TRUE
                /\ connect_outcome' = outcome
                /\ pc' = "sm_check"
                /\ UNCHANGED sm_result
           [] outcome = "down" ->
                /\ pc' = "sm_check"
                /\ connect_outcome' = outcome
                /\ UNCHANGED << sio_connected, sm_result >>
    /\ UNCHANGED << args_streaming, WEBSOCKET_AVAILABLE, interactive_mode, side, emitted, conversation_history,
                    response_data, delivered, http_calls, disconnect_calls, executed,
                    http_returned, timed_out, raised >>

\* if not self.sio.connected: return AgentResponse(error="Failed to connect ...")
CheckConnected ==
    /\ pc = "sm_check"
    /\ IF sio_connected
         THEN /\ pc' = "sm_emit"
              /\ UNCHANGED sm_result
         ELSE /\ sm_result' = << AgentResponse(EmptyStr, <<>>, NotConnectedMsg, <<>>) >>
              /\ pc' = "sel_check"
    /\ UNCHANGED << args_streaming, WEBSOCKET_AVAILABLE, interactive_mode, side, emitted, client, response_event,
                    sio_connected, conversation_history, response_data, delivered,
                    http_calls, http_returned, disconnect_calls, executed, connect_outcome, timed_out, raised >>

\* payload, then self.sio.emit('send_chat_message', payload), outside any try:
\* emit raises BadNamespaceError when the namespace is no longer connected
Emit ==
    /\ pc = "sm_emit"
    /\ IF sio_connected
         THEN /\ pc' = "sm_wait"
              /\ emitted' = Append(emitted, ChatPayload)
              /\ UNCHANGED raised
         ELSE /\ raised' = "BadNamespaceError"
              /\ pc' = "except"
              /\ UNCHANGED emitted
    /\ UNCHANGED << args_streaming, WEBSOCKET_AVAILABLE, interactive_mode, side, client, response_event,
                    sio_connected, conversation_history, sm_result, response_data,
                    delivered, http_calls, http_returned, disconnect_calls, executed, connect_outcome,
                    timed_out >>

\* self.response_event.wait(timeout) returns True: the flag is set
WaitSignalled ==
    /\ pc = "sm_wait"
    /\ response_event
    /\ pc' = "sm_disc"
    /\ UNCHANGED << args_streaming, WEBSOCKET_AVAILABLE, interactive_mode, side, emitted, client, response_event,
                    sio_connected, conversation_history, sm_result, response_data,
                    delivered, http_calls, http_returned, disconnect_calls, executed, connect_outcome,
                    timed_out, raised >>

\* a wait without a timeout: the caller stays blocked while the flag is unset
WaitWithoutTimeout ==
    /\ pc = "sm_wait"
    /\ ~response_event
    /\ UNCHANGED vars

\* self.response_event.wait(timeout) returns False: the timeout expired
WaitTimeout ==
    /\ pc = "sm_wait"
    /\ ~response_event
    /\ timed_out' = TRUE
    /\ pc' = "sm_timeout"
    /\ UNCHANGED << args_streaming, WEBSOCKET_AVAILABLE, interactive_mode, side, emitted, client, response_event,
                    sio_connected, conversation_history, sm_result, response_data,
                    delivered, http_calls, http_returned, disconnect_calls, executed, connect_outcome, raised >>

\* KeyboardInterrupt raised in the caller thread while it waits; no handler
\* in send_message, and main()'s "except Exception" does not catch it
Interrupt ==
    /\ pc = "sm_wait"
    /\ raised' = "KeyboardInterrupt"
    /\ pc' = "interrupted"
    /\ UNCHANGED << args_streaming, WEBSOCKET_AVAILABLE, interactive_mode, side, emitted, client, response_event,
                    sio_connected, conversation_history, sm_result, response_data,
                    delivered, http_calls, http_returned, disconnect_calls, executed, connect_outcome,
                    timed_out >>

\* self.error_occurred = True; self.error_message = "Response timed out"
SetTimedOut ==
    /\ pc = "sm_timeout"
    /\ error_occurred' = TRUE
    /\ error_message' = TimedOutMsg
    /\ pc' = "sm_disc"
    /\ UNCHANGED << args_streaming, WEBSOCKET_AVAILABLE, interactive_mode, side, emitted, response_complete,
                    full_response, citations, mcp_results, response_event,
                    sio_connected, conversation_history, sm_result, response_data,
                    delivered, http_calls, http_returned, disconnect_calls, executed, connect_outcome,
                    timed_out, raised >>

\* try: self.sio.disconnect() except: pass -- the disconnect handler runs
\* when a live connection is closed
Disconnect ==
    /\ pc = "sm_disc"
    /\ disconnect_calls' = disconnect_calls + 1
    /\ sio_connected' = FALSE
    /\ response_event' = (response_event \/ sio_connected)
    /\ pc' = "sm_finish"
    /\ UNCHANGED << args_streaming, WEBSOCKET_AVAILABLE, interactive_mode, side, emitted, client,
                    conversation_history, sm_result, response_data, delivered,
                    http_calls, http_returned, executed, connect_outcome, timed_out, raised >>

\* a finish that logs the agent text only for a successful response
FinishLogOnSuccessOnly ==
    /\ pc = "sm_finish"
    /\ conversation_history' =
         LET h == add_user_message(conversation_history, UserMessage)
         IN  IF full_response # EmptyStr /\ ~error_occurred /\ response_complete
               THEN add_agent_message(h, full_response) ELSE h
    /\ sm_result' =
         IF error_occurred
           THEN << AgentResponse(EmptyStr, <<>>, error_message, <<>>) >>
           ELSE IF ~response_complete
                  THEN << AgentResponse(EmptyStr, <<>>, IncompleteMsg, <<>>) >>
                  ELSE << AgentResponse(full_response, citations, NoneText, mcp_results) >>
    /\ pc' = "sel_check"
    /\ UNCHANGED << args_streaming, WEBSOCKET_AVAILABLE, interactive_mode, side, emitted, client, response_event,
                    sio_connected, response_data, delivered, http_calls, http_returned,
                    disconnect_calls, executed, connect_outcome, timed_out, raised >>

\* a finish that tests completion before the error flag
FinishCompleteFirst ==
    /\ pc = "sm_finish"
    /\ conversation_history' =
         LET h == add_user_message(conversation_history, UserMessage)
         IN  IF full_response # EmptyStr THEN add_agent_message(h, full_response) ELSE h
    /\ sm_result' =
         IF response_complete
           THEN << AgentResponse(full_response, citations, NoneText, mcp_results) >>
           ELSE IF error_occurred
                  THEN << AgentResponse(EmptyStr, <<>>, error_message, <<>>) >>
                  ELSE << AgentResponse(EmptyStr, <<>>, IncompleteMsg, <<>>) >>
    /\ pc' = "sel_check"
    /\ UNCHANGED << args_streaming, WEBSOCKET_AVAILABLE, interactive_mode, side, emitted, client, response_event,
                    sio_connected, response_data, delivered, http_calls, http_returned,
                    disconnect_calls, executed, connect_outcome, timed_out, raised >>

\* the conversation-log appends and the result
Finish ==
    /\ pc = "sm_finish"
    /\ conversation_history' =
         LET h == add_user_message(conversation_history, UserMessage)
         IN  IF full_response # EmptyStr THEN add_agent_message(h, full_response) ELSE h
    /\ sm_result' =
         IF error_occurred
           THEN << AgentResponse(EmptyStr, <<>>, error_message, <<>>) >>
           ELSE IF ~response_complete
                  THEN << AgentResponse(EmptyStr, <<>>, IncompleteMsg, <<>>) >>
                  ELSE << AgentResponse(full_response, citations, NoneText, mcp_results) >>
    /\ pc' = "sel_check"
    /\ UNCHANGED << args_streaming, WEBSOCKET_AVAILABLE, interactive_mode, side, emitted, client, response_event,
                    sio_connected, response_data, delivered, http_calls, http_returned,
                    disconnect_calls, executed, connect_outcome, timed_out, raised >>

\* ------------------------------------------ handlers (socket.io thread)
\* the transport hands an event to its handler only while connected
CanDeliver == sio_connected /\ Len(delivered) < MaxEvents

\* a handler that completes on every finish_reason
on_chat_response_any_finish(data) ==
    /\ CanDeliver
    /\ full_response' = IF data.content # EmptyStr
                          THEN full_response \o data.content ELSE full_response
    /\ citations' = IF data.citations # <<>>
                      THEN citations \o data.citations ELSE citations
    /\ IF data.finish_reason # None
         THEN /\ response_complete' = TRUE
              /\ response_event' = TRUE
         ELSE UNCHANGED << response_complete, response_event >>
    /\ delivered' = Append(delivered, data)
    /\ UNCHANGED << args_streaming, WEBSOCKET_AVAILABLE, interactive_mode, side, emitted, pc, mcp_results,
                    error_occurred, error_message, sio_connected,
                    conversation_history, sm_result, response_data, http_calls, http_returned,
                    disconnect_calls, executed, connect_outcome, timed_out, raised >>

\* a handler that keeps only the latest chunk of text
on_chat_response_overwrite(data) ==
    /\ CanDeliver
    /\ full_response' = IF data.content # EmptyStr
                          THEN data.content ELSE full_response
    /\ citations' = IF data.citations # <<>>
                      THEN citations \o data.citations ELSE citations
    /\ IF data.finish_reason = "stop"
         THEN /\ response_complete' = TRUE
              /\ response_event' = TRUE
         ELSE UNCHANGED << response_complete, response_event >>
    /\ delivered' = Append(delivered, data)
    /\ UNCHANGED << args_streaming, WEBSOCKET_AVAILABLE, interactive_mode, side, emitted, pc, mcp_results,
                    error_occurred, error_message, sio_connected,
                    conversation_history, sm_result, response_data, http_calls, http_returned,
                    disconnect_calls, executed, connect_outcome, timed_out, raised >>

\* @sio.on('chat_message_response')
on_chat_response(data) ==
    /\ CanDeliver
    /\ full_response' = IF data.content # EmptyStr
                          THEN full_response \o data.content ELSE full_response
    /\ citations' = IF data.citations # <<>>
                      THEN citations \o data.citations ELSE citations
    /\ IF data.finish_reason = "stop"
         THEN /\ response_complete' = TRUE
              /\ response_event' = TRUE
         ELSE UNCHANGED << response_complete, response_event >>
    /\ delivered' = Append(delivered, data)
    /\ UNCHANGED << args_streaming, WEBSOCKET_AVAILABLE, interactive_mode, side, emitted, pc, mcp_results,
                    error_occurred, error_message, sio_connected,
                    conversation_history, sm_result, response_data, http_calls, http_returned,
                    disconnect_calls, executed, connect_outcome, timed_out, raised >>

\* @sio.on('mcp_tool_complete_in_content')
on_mcp_tool_complete(data) ==
    /\ CanDeliver
    /\ mcp_results' =
         IF data.islist /\ data.len > 1 /\ data.parsed # "invalid"
           THEN Append(mcp_results, [kind |-> "parsed", v |-> data.parsed])
           ELSE Append(mcp_results, [kind |-> "raw", v |-> data.block])
    /\ delivered' = Append(delivered, data)
    /\ UNCHANGED << args_streaming, WEBSOCKET_AVAILABLE, interactive_mode, side, emitted, pc, response_complete,
                    full_response, citations, error_occurred, error_message,
                    response_event, sio_connected, conversation_history, sm_result,
                    response_data, http_calls, http_returned, disconnect_calls, executed, connect_outcome,
                    timed_out, raised >>

\* on_error: data.get('error', str(data)) for a mapping, str(data) otherwise
ErrorText(data) ==
    IF data.isdict /\ data.error # NoneText THEN data.error ELSE data.repr

\* @sio.on('error'): data.get('error', str(data)) for a mapping, else str(data)
on_error(data) ==
    /\ CanDeliver
    /\ error_occurred' = TRUE
    /\ error_message' = ErrorText(data)
    /\ response_event' = TRUE
    /\ delivered' = Append(delivered, data)
    /\ UNCHANGED << args_streaming, WEBSOCKET_AVAILABLE, interactive_mode, side, emitted, pc, response_complete,
                    full_response, citations, mcp_results, sio_connected,
                    conversation_history, sm_result, response_data, http_calls, http_returned,
                    disconnect_calls, executed, connect_outcome, timed_out, raised >>

\* a disconnect notification that does not wake the caller
disconnect_silent ==
    /\ sio_connected
    /\ sio_connected' = FALSE
    /\ UNCHANGED << args_streaming, WEBSOCKET_AVAILABLE, interactive_mode, side, emitted, pc, client,
                    response_event, conversation_history, sm_result, response_data, delivered,
                    http_calls, http_returned, disconnect_calls, executed, connect_outcome, timed_out, raised >>

\* @sio.event disconnect, when the transport drops on its own
disconnect ==
    /\ sio_connected
    /\ sio_connected' = FALSE
    /\ response_event' = TRUE
    /\ UNCHANGED << args_streaming, WEBSOCKET_AVAILABLE, interactive_mode, side, emitted, pc, client,
                    conversation_history, sm_result, response_data, delivered,
                    http_calls, http_returned, disconnect_calls, executed, connect_outcome, timed_out, raised >>

\* ------------------------------------------------------ the parser alone
\* everything but the parser's argument and result
session == << loop_vars, emitted, args_streaming, WEBSOCKET_AVAILABLE, interactive_mode, pc, client,
              response_event, sio_connected, conversation_history, sm_result,
              response_data, delivered, http_calls, http_returned,
              disconnect_calls, connect_outcome, timed_out, raised >>

\* no exchange has started
SessionNotStarted ==
    /\ emitted = <<>>
    /\ args_streaming = FALSE
    /\ WEBSOCKET_AVAILABLE = FALSE
    /\ interactive_mode = FALSE
    /\ pc = "select"
    /\ response_complete = FALSE
    /\ full_response = EmptyStr
    /\ citations = <<>>
    /\ mcp_results = <<>>
    /\ error_occurred = FALSE
    /\ error_message = EmptyStr
    /\ response_event = FALSE
    /\ sio_connected = FALSE
    /\ conversation_history = <<>>
    /\ sm_result = <<>>
    /\ response_data = <<>>
    /\ delivered = <<>>
    /\ http_calls = 0
    /\ disconnect_calls = 0
    /\ executed = <<>>
    /\ connect_outcome = None
    /\ http_returned = <<>>
    /\ timed_out = FALSE
    /\ raised = None

InitParse ==
    /\ NoEarlierExchange
    /\ content \in ParserInputs
    /\ results = <<>>
    /\ SessionNotStarted
    /\ ExecutorConstructed
    /\ AuthIdle
    /\ StartupDone

\* results = parse_tool_use_blocks(content)
Parse ==
    /\ results = <<>>
    /\ results' = << parse_tool_use_blocks(content) >>
    /\ UNCHANGED << content, session, executed, executor_vars, auth_vars, startup_vars >>

NextParse == Parse

SpecParse == InitParse /\ [][NextParse]_vars

\* ---------------------------------------------------- the executor alone
\* number of execute calls made on one executor
MaxCalls == 2

\* ToolCalls as the parser builds them: id is None or a non-empty text
ToolCalls ==
    { [server |-> st[1], tool |-> st[2], arguments |-> a, id |-> i] :
        st \in { << <<"s1">>, <<"t1">> >>, << <<"brave-search">>, <<"search">> >> },
        a \in { EmptyMapping, [raw |-> TRUE, v |-> <<"[1,2]">>] },
        i \in { NoneText, <<"42">> } }

\* a decoded JSON body: a mapping (its items) or another JSON value
DictBody(items) == [isdict |-> TRUE, items |-> items, value |-> <<>>]

OtherBody(value) == [isdict |-> FALSE, items |-> {}, value |-> value]

\* what requests.post meets: an exception, or a response (status_code, text,
\* and whether resp.json() decodes and to what)
McpResponses ==
    { [raises |-> TRUE, exc |-> <<"ConnectionError: no route to host">>,
       status_code |-> 0, text |-> <<>>, decodable |-> FALSE, body |-> OtherBody(<<>>)],
      [raises |-> FALSE, exc |-> <<>>, status_code |-> 200, text |-> <<"{\"result\": \"ok\"}">>,
       decodable |-> TRUE, body |-> DictBody({ << "result", <<"ok">> >> })],
      [raises |-> FALSE, exc |-> <<>>, status_code |-> 200, text |-> <<"{\"error\": \"tool failed\"}">>,
       decodable |-> TRUE, body |-> DictBody({ << "error", <<"tool failed">> >> })],
      [raises |-> FALSE, exc |-> <<>>, status_code |-> 200, text |-> <<"[1,2]">>,
       decodable |-> TRUE, body |-> OtherBody(<<"[1,2]">>)],
      [raises |-> FALSE, exc |-> <<"Expecting value: line 1 column 1 (char 0)">>,
       status_code |-> 200, text |-> <<"<html>">>, decodable |-> FALSE, body |-> OtherBody(<<>>)],
      [raises |-> FALSE, exc |-> <<>>, status_code |-> 500, text |-> <<"Server error">>,
       decodable |-> FALSE, body |-> OtherBody(<<>>)],
      [raises |-> FALSE, exc |-> <<>>, status_code |-> 404, text |-> <<>>,
       decodable |-> FALSE, body |-> OtherBody(<<>>)] }

\* str(resp.status_code)
StatusText(n) ==
    CASE n = 200 -> "200"
      [] n = 404 -> "404"
      [] n = 500 -> "500"
      [] OTHER   -> "0"

\* a payload that never carries the correlation id
PayloadWithoutId(tool_call) ==
    [agentId |-> mcp_executor.agent_uuid, server |-> tool_call.server,
     tool |-> tool_call.tool, arguments |-> tool_call.arguments]

\* _call_remote_mcp: payload = {...}; if tool_call.id: payload["toolCallId"] = tool_call.id
Payload(tool_call) ==
    IF Truthy(tool_call.id)
      THEN [agentId |-> mcp_executor.agent_uuid, server |-> tool_call.server,
            tool |-> tool_call.tool, arguments |-> tool_call.arguments,
            toolCallId |-> tool_call.id]
      ELSE [agentId |-> mcp_executor.agent_uuid, server |-> tool_call.server,
            tool |-> tool_call.tool, arguments |-> tool_call.arguments]

\* _call_remote_mcp: the request handed to requests.post
Request(tool_call) ==
    [url |-> << mcp_executor.api_base_url, "/mcp/execute" >>,
     json |-> Payload(tool_call),
     headers |-> [Authorization |-> << "Bearer ", mcp_executor.access_token >>,
                  ContentType |-> "application/json"],
     timeout |-> mcp_executor.timeout]

\* _call_remote_mcp: the mapping returned for what the request met; except
\* Exception covers requests.post and resp.json()
RemoteResult(r) ==
    IF r.raises THEN { << "error", r.exc >> }
    ELSE IF r.status_code = 200
           THEN IF ~r.decodable THEN { << "error", r.exc >> }
                ELSE IF r.body.isdict THEN r.body.items
                ELSE { << "result", r.body.value >> }
           ELSE { << "error", << "HTTP ", StatusText(r.status_code) >> >>,
                  << "detail", r.text >> }

\* an executor whose remote call is not wrapped in try/except
execute_unguarded(tool_call, r) ==
    /\ Len(executed) < MaxCalls
    /\ ~exec_raised
    /\ executed' = Append(executed, tool_call)
    /\ posted' = Append(posted, Request(tool_call))
    /\ mcp_responses' = Append(mcp_responses, r)
    /\ IF r.raises \/ (r.status_code = 200 /\ ~r.decodable)
         THEN exec_raised' = TRUE /\ UNCHANGED exec_returned
         ELSE exec_returned' = Append(exec_returned, RemoteResult(r)) /\ UNCHANGED exec_raised
    /\ UNCHANGED << mcp_executor, content, results, session, auth_vars, startup_vars >>

\* McpExecutor.execute(tool_call) -> self._call_remote_mcp(tool_call)
execute(tool_call, r) ==
    /\ Len(executed) < MaxCalls
    /\ ~exec_raised
    /\ executed' = Append(executed, tool_call)
    /\ posted' = Append(posted, Request(tool_call))
    /\ mcp_responses' = Append(mcp_responses, r)
    /\ exec_returned' = Append(exec_returned, RemoteResult(r))
    /\ UNCHANGED << mcp_executor, exec_raised, content, results, session, auth_vars, startup_vars >>

InitExec ==
    /\ NoEarlierExchange
    /\ content = EmptyStr
    /\ results = <<>>
    /\ SessionNotStarted
    /\ ExecutorConstructed
    /\ AuthIdle
    /\ StartupDone

NextExec == \E tool_call \in ToolCalls, r \in McpResponses : execute(tool_call, r)

SpecExec == InitExec /\ [][NextExec]_vars

\* ------------------------------------------- the 401 refresh and retry
\* the access_token argument of the API function
ArgToken == "old_token"

\* stored sessions: with cookies, with an empty cookie jar, without the key,
\* and none at all
Sessions == { SessionOf("rt_abc"), SessionOf("{}"), SessionOf(None), EmptySession }

\* what a request of the API function meets: an exception, or a status
ApiResponses ==
    { [raises |-> TRUE,  status_code |-> 0],
      [raises |-> FALSE, status_code |-> 200],
      [raises |-> FALSE, status_code |-> 401],
      [raises |-> FALSE, status_code |-> 404],
      [raises |-> FALSE, status_code |-> 500] }

\* what POST /api/auth/refresh meets: an exception, or a status with a body
\* (isdict: response.json() is a mapping; accessToken: data.get("accessToken"))
RefreshResponses ==
    { [raises |-> TRUE,  status_code |-> 0,   isdict |-> FALSE, accessToken |-> None],
      [raises |-> FALSE, status_code |-> 200, isdict |-> TRUE,  accessToken |-> "new_token"],
      [raises |-> FALSE, status_code |-> 200, isdict |-> TRUE,  accessToken |-> None],
      [raises |-> FALSE, status_code |-> 200, isdict |-> TRUE,  accessToken |-> ""],
      [raises |-> FALSE, status_code |-> 200, isdict |-> FALSE, accessToken |-> None],
      [raises |-> FALSE, status_code |-> 401, isdict |-> TRUE,  accessToken |-> None],
      [raises |-> FALSE, status_code |-> 500, isdict |-> FALSE, accessToken |-> None] }

\* no request was sent
NotPosted == [raises |-> FALSE, status_code |-> 0, isdict |-> FALSE, accessToken |-> None]

\* Python truthiness of session_data.get("cookies") or {}
HasCookies(stored) == stored.cookies \notin { None, "{}" }

\* refresh_access_token: the value returned for what the POST met
RefreshResult(o) ==
    IF o.raises THEN None
    ELSE IF o.status_code # 200 THEN None
    ELSE IF ~o.isdict THEN None
    ELSE IF o.accessToken \in { None, "" } THEN None
    ELSE o.accessToken

\* a save_session that replaces the stored session by the new data
SaveReplacing(stored, new_token) == [EmptySession EXCEPT !.access_token = new_token]

\* SessionManager.save_session({"access_token": new_token}): session_data.update(data)
SaveUpdating(stored, new_token) == [stored EXCEPT !.access_token = new_token]

\* a caller that sends the request again whatever the refresh returned
RetryAlways(new_token) == TRUE

\* if new_token: (retry)
ShouldRetry(new_token) == new_token # None

\* the first request of the API function
ApiRequest ==
    /\ pc = "api_request"
    /\ \E r \in ApiResponses :
         /\ api_requests' = Append(api_requests, [bearer |-> ArgToken, met |-> r])
         /\ pc' = IF ~r.raises /\ r.status_code = 401 /\ with_session_manager
                    THEN "api_refresh" ELSE "api_done"
    /\ UNCHANGED << api_call, with_session_manager, session_data, session_file,
                    refresh_calls, emitted, args_streaming, WEBSOCKET_AVAILABLE,
                    interactive_mode, client, response_event, sio_connected,
                    conversation_history, sm_result, response_data, delivered,
                    http_calls, http_returned, disconnect_calls, connect_outcome,
                    timed_out, raised, executed, content, results, executor_vars, startup_vars,
                    loop_vars >>

\* refresh_access_token(api_base_url, session_manager)
refresh_access_token ==
    /\ pc = "api_refresh"
    /\ LET cookies_found == HasCookies(session_file)
       IN  \E o \in RefreshResponses, write_ok \in BOOLEAN :
             LET met == IF cookies_found THEN o ELSE NotPosted
                 new_token == IF cookies_found THEN RefreshResult(o) ELSE None
             IN  /\ refresh_calls' = Append(refresh_calls,
                        [posted |-> cookies_found, met |-> met,
                         returned |-> new_token, before |-> session_data])
                 /\ IF new_token # None
                      THEN /\ session_data' = SaveUpdating(session_data, new_token)
                           /\ session_file' = IF write_ok THEN session_data' ELSE session_file
                      ELSE UNCHANGED << session_data, session_file >>
                 /\ pc' = IF ShouldRetry(new_token) THEN "api_retry" ELSE "api_done"
    /\ UNCHANGED << api_call, with_session_manager, api_requests, emitted,
                    args_streaming, WEBSOCKET_AVAILABLE,
                    interactive_mode, client, response_event, sio_connected,
                    conversation_history, sm_result, response_data, delivered,
                    http_calls, http_returned, disconnect_calls, connect_outcome,
                    timed_out, raised, executed, content, results, executor_vars, startup_vars,
                    loop_vars >>

\* headers["Authorization"] = f"Bearer {new_token}" and the request again
ApiRetry ==
    /\ pc = "api_retry"
    /\ \E r \in ApiResponses :
         api_requests' = Append(api_requests,
                                [bearer |-> refresh_calls[Len(refresh_calls)].returned, met |-> r])
    /\ pc' = "api_done"
    /\ UNCHANGED << api_call, with_session_manager, session_data, session_file,
                    refresh_calls, emitted, args_streaming, WEBSOCKET_AVAILABLE,
                    interactive_mode, client, response_event, sio_connected,
                    conversation_history, sm_result, response_data, delivered,
                    http_calls, http_returned, disconnect_calls, connect_outcome,
                    timed_out, raised, executed, content, results, executor_vars, startup_vars,
                    loop_vars >>

InitRefresh ==
    /\ NoEarlierExchange
    /\ api_call \in { "get_agent_config", "send_message_http" }
    /\ with_session_manager \in BOOLEAN
    /\ session_data \in Sessions
    /\ session_file = session_data
    /\ api_requests = <<>>
    /\ refresh_calls = <<>>
    /\ content = EmptyStr
    /\ results = <<>>
    /\ ExecutorConstructed
    /\ emitted = <<>>
    /\ args_streaming = FALSE
    /\ WEBSOCKET_AVAILABLE = FALSE
    /\ interactive_mode = FALSE
    /\ pc = "api_request"
    /\ response_complete = FALSE
    /\ full_response = EmptyStr
    /\ citations = <<>>
    /\ mcp_results = <<>>
    /\ error_occurred = FALSE
    /\ error_message = EmptyStr
    /\ response_event = FALSE
    /\ sio_connected = FALSE
    /\ conversation_history = <<>>
    /\ sm_result = <<>>
    /\ response_data = <<>>
    /\ delivered = <<>>
    /\ http_calls = 0
    /\ disconnect_calls = 0
    /\ executed = <<>>
    /\ connect_outcome = None
    /\ http_returned = <<>>
    /\ timed_out = FALSE
    /\ raised = None
    /\ StartupDone

NextRefresh ==
    \/ ApiRequest
    \/ refresh_access_token
    \/ ApiRetry

SpecRefresh == InitRefresh /\ [][NextRefresh]_vars

\* ------------------------------------------------- main(): the start-up
NoUuidMsg == "No agent UUID provided"

LoadFailedMsg == "Failed to load agent"

NoMessageMsg == "No message provided"

\* everything the start-up leaves alone
after_startup == << client, response_event, sio_connected, conversation_history,
                    sm_result, response_data, delivered, http_calls, http_returned,
                    disconnect_calls, connect_outcome, timed_out, raised, executed,
                    emitted, content, results, executor_vars, auth_vars, loop_vars,
                    WEBSOCKET_AVAILABLE, user_message_given, args_interactive >>

\* main(): if not agent_uuid: prompt, validate, save to .env; else: validate
UuidSetup ==
    /\ pc = "startup"
    /\ \E typed \in BOOLEAN, config_ok \in BOOLEAN, env_write_ok \in BOOLEAN :
         IF agent_uuid = None
           THEN IF ~typed
                  THEN /\ exit_message' = NoUuidMsg
                       /\ pc' = "exit"
                       /\ UNCHANGED << agent_uuid, uuid_entered, uuid_just_setup >>
                  ELSE /\ agent_uuid' = "uuid-typed"
                       /\ uuid_entered' = TRUE
                       /\ IF ~config_ok
                            THEN /\ exit_message' = LoadFailedMsg
                                 /\ pc' = "exit"
                                 /\ UNCHANGED uuid_just_setup
                            ELSE /\ uuid_just_setup' = env_write_ok
                                 /\ pc' = "mode"
                                 /\ UNCHANGED exit_message
           ELSE /\ uuid_just_setup' = FALSE
                /\ IF ~config_ok
                     THEN exit_message' = LoadFailedMsg /\ pc' = "exit"
                     ELSE pc' = "mode" /\ UNCHANGED exit_message
                /\ UNCHANGED << agent_uuid, uuid_entered >>
    /\ UNCHANGED << after_startup, interactive_mode, args_streaming >>

\* main(): interactive_mode = args.interactive, then the auto-enter test
ChooseMode ==
    /\ pc = "mode"
    /\ LET auto == uuid_just_setup /\ ~user_message_given /\ ~args_interactive
       IN  /\ interactive_mode' = (args_interactive \/ auto)
           /\ args_streaming' = (args_streaming \/ auto)
    /\ pc' = "enter"
    /\ UNCHANGED << after_startup, startup_vars >>

\* main(): if interactive_mode: the loop; else: the message test, then the
\* single exchange
EnterMode ==
    /\ pc = "enter"
    /\ IF interactive_mode
         THEN pc' = "interactive_loop" /\ UNCHANGED exit_message
         ELSE IF ~user_message_given
                THEN pc' = "exit" /\ exit_message' = NoMessageMsg
                ELSE pc' = "select" /\ UNCHANGED exit_message
    /\ UNCHANGED << after_startup, interactive_mode, args_streaming,
                    agent_uuid, uuid_entered, uuid_just_setup >>

InitStartup ==
    /\ NoEarlierExchange
    /\ agent_uuid \in { None, "uuid-from-env" }
    /\ uuid_entered = FALSE
    /\ uuid_just_setup = FALSE
    /\ user_message_given \in BOOLEAN
    /\ args_interactive \in BOOLEAN
    /\ exit_message = None
    /\ args_streaming \in BOOLEAN
    /\ WEBSOCKET_AVAILABLE \in BOOLEAN
    /\ interactive_mode = FALSE
    /\ pc = "startup"
    /\ emitted = <<>>
    /\ response_complete = FALSE
    /\ full_response = EmptyStr
    /\ citations = <<>>
    /\ mcp_results = <<>>
    /\ error_occurred = FALSE
    /\ error_message = EmptyStr
    /\ response_event = FALSE
    /\ sio_connected = FALSE
    /\ conversation_history = <<>>
    /\ sm_result = <<>>
    /\ response_data = <<>>
    /\ delivered = <<>>
    /\ http_calls = 0
    /\ disconnect_calls = 0
    /\ executed = <<>>
    /\ connect_outcome = None
    /\ http_returned = <<>>
    /\ timed_out = FALSE
    /\ raised = None
    /\ content = EmptyStr
    /\ results = <<>>
    /\ ExecutorConstructed
    /\ AuthIdle

NextStartup ==
    \/ UuidSetup
    \/ ChooseMode
    \/ EnterMode

SpecStartup == InitStartup /\ [][NextStartup]_vars

\* ------------------------------------------- the interactive loop
\* the attributes of the current WebSocketClient the handlers work on
ClientState ==
    [response_complete |-> response_complete, full_response |-> full_response,
     citations |-> citations, mcp_results |-> mcp_results,
     error_occurred |-> error_occurred, error_message |-> error_message,
     response_event |-> response_event]

\* the handlers _setup_handlers binds to one client object c (their self)
Handled(c, data) ==
    CASE data.type = "chat" ->
           [c EXCEPT !.full_response = IF data.content # EmptyStr
                                         THEN @ \o data.content ELSE @,
                     !.citations = IF data.citations # <<>>
                                     THEN @ \o data.citations ELSE @,
                     !.response_complete = @ \/ data.finish_reason = "stop",
                     !.response_event = @ \/ data.finish_reason = "stop"]
      [] data.type = "mcp" ->
           [c EXCEPT !.mcp_results =
                IF data.islist /\ data.len > 1 /\ data.parsed # "invalid"
                  THEN Append(@, [kind |-> "parsed", v |-> data.parsed])
                  ELSE Append(@, [kind |-> "raw", v |-> data.block])]
      [] data.type = "error" ->
           [c EXCEPT !.error_occurred = TRUE,
                     !.error_message = ErrorText(data),
                     !.response_event = TRUE]
      [] data.type = "disconnect" ->
           [c EXCEPT !.response_event = TRUE]

\* what the server sends during an exchange of the loop: text with the
\* completing signal, or an error
LoopChatEvents ==
    { data \in ChatEvents : data.content = PlainText /\ data.finish_reason = "stop" }

LoopErrorEvents == { data \in ErrorEvents : data.error = <<"boom">> }

\* what the connection of the exchange before may still deliver: a completing
\* event, an error, its disconnect notification
LateEvents ==
    { [type |-> "chat", content |-> <<"late text">>, finish_reason |-> "stop",
       citations |-> <<"late_c">>],
      [type |-> "error", isdict |-> TRUE, error |-> <<"late fault">>,
       repr |-> <<"{'error': 'late fault'}">>],
      [type |-> "disconnect"] }

\* main(): the while loop comes round: the next input is read; ws_client
\* still names the client of the finished exchange until NewClient rebinds it
NextTurn ==
    /\ pc = "done"
    /\ interactive_mode
    /\ turn < MaxTurns
    /\ turn' = turn + 1
    /\ pc' = "select"
    /\ IF raised = "ClientInitError"
         THEN UNCHANGED << prev_client, late_delivered >>
         ELSE /\ prev_client' = << ClientState >>
              /\ late_delivered' = <<>>
    /\ sm_result' = <<>>
    /\ response_data' = <<>>
    /\ delivered' = <<>>
    /\ emitted' = <<>>
    /\ http_calls' = 0
    /\ http_returned' = <<>>
    /\ disconnect_calls' = 0
    /\ connect_outcome' = None
    /\ timed_out' = FALSE
    /\ raised' = None
    /\ UNCHANGED << args_streaming, WEBSOCKET_AVAILABLE, interactive_mode, content, results,
                    executor_vars, auth_vars, startup_vars, client, response_event,
                    sio_connected, conversation_history, executed >>

\* handlers that work on whichever client is current
LateCallbackShared ==
    /\ prev_client # <<>>
    /\ Len(late_delivered) < MaxLate
    /\ \E data \in LateEvents :
         LET c == Handled(ClientState, data)
         IN  /\ response_complete' = c.response_complete
             /\ full_response' = c.full_response
             /\ citations' = c.citations
             /\ mcp_results' = c.mcp_results
             /\ error_occurred' = c.error_occurred
             /\ error_message' = c.error_message
             /\ response_event' = c.response_event
             /\ late_delivered' = Append(late_delivered, data)
    /\ UNCHANGED << args_streaming, WEBSOCKET_AVAILABLE, interactive_mode, content, results,
                    executor_vars, auth_vars, startup_vars, prev_client, turn, emitted, pc,
                    sio_connected, conversation_history, sm_result, response_data, delivered,
                    http_calls, http_returned, disconnect_calls, executed, connect_outcome,
                    timed_out, raised >>

\* a callback of the earlier exchange's connection runs late: its handlers
\* are closures over the client object that registered them
LateCallback ==
    /\ prev_client # <<>>
    /\ Len(late_delivered) < MaxLate
    /\ \E data \in LateEvents :
         /\ prev_client' = << Handled(prev_client[1], data) >>
         /\ late_delivered' = Append(late_delivered, data)
    /\ UNCHANGED << args_streaming, WEBSOCKET_AVAILABLE, interactive_mode, content, results,
                    executor_vars, auth_vars, startup_vars, turn, emitted, pc, client,
                    response_event, sio_connected, conversation_history, sm_result,
                    response_data, delivered, http_calls, http_returned, disconnect_calls,
                    executed, connect_outcome, timed_out, raised >>

\* main() in interactive mode with --streaming and the dependency loaded
InitLoop ==
    /\ Init
    /\ interactive_mode
    /\ args_streaming
    /\ WEBSOCKET_AVAILABLE

NextLoop ==
    \/ SelectTransport
    \/ NewClient
    \/ SelectorCheck
    \/ SelectorExcept
    \/ Connect
    \/ CheckConnected
    \/ Emit
    \/ WaitSignalled
    \/ WaitTimeout
    \/ SetTimedOut
    \/ Disconnect
    \/ Finish
    \/ \E data \in LoopChatEvents : on_chat_response(data)
    \/ \E data \in LoopErrorEvents : on_error(data)
    \/ disconnect
    \/ NextTurn
    \/ LateCallback

SpecLoop == InitLoop /\ [][NextLoop]_vars

Next ==
    \/ SelectTransport
    \/ HttpOnly
    \/ NewClient
    \/ SelectorCheck
    \/ SelectorExcept
    \/ Connect
    \/ CheckConnected
    \/ Emit
    \/ WaitSignalled
    \/ WaitTimeout
    \/ Interrupt
    \/ SetTimedOut
    \/ Disconnect
    \/ Finish
    \/ \E data \in ChatEvents : on_chat_response(data)
    \/ \E data \in McpEvents : on_mcp_tool_complete(data)
    \/ \E data \in ErrorEvents : on_error(data)
    \/ disconnect

Spec == Init /\ [][Next]_vars

\* one exchange whose server sends error events that carry a code
NextFaults ==
    \/ SelectTransport
    \/ HttpOnly
    \/ NewClient
    \/ SelectorCheck
    \/ SelectorExcept
    \/ Connect
    \/ CheckConnected
    \/ Emit
    \/ WaitSignalled
    \/ WaitTimeout
    \/ Interrupt
    \/ SetTimedOut
    \/ Disconnect
    \/ Finish
    \/ \E data \in CodedErrorEvents : on_error(data)
    \/ disconnect

SpecFaults == Init /\ [][NextFaults]_vars

\* the steps of the caller thread inside send_message from the wait on; the
\* timeout is finite and disconnect() returns, so each is taken once enabled
CallerStep ==
    \/ WaitSignalled
    \/ WaitTimeout
    \/ SetTimedOut
    \/ Disconnect
    \/ Finish

\* one event of each kind the wait can meet: text without a signal, text
\* with the completing signal, another terminal signal, a tool result, an error
LiveEvents ==
    { data \in ChatEvents : data.content = PlainText
                               /\ data.finish_reason \in {None, "stop", "end_turn"} }

NextLive ==
    \/ SelectTransport
    \/ HttpOnly
    \/ NewClient
    \/ SelectorCheck
    \/ SelectorExcept
    \/ Connect
    \/ CheckConnected
    \/ Emit
    \/ WaitSignalled
    \/ WaitTimeout
    \/ Interrupt
    \/ SetTimedOut
    \/ Disconnect
    \/ Finish
    \/ \E data \in LiveEvents : on_chat_response(data)
    \/ \E data \in { e \in McpEvents : e.parsed = "r1" } : on_mcp_tool_complete(data)
    \/ \E data \in LoopErrorEvents : on_error(data)
    \/ disconnect

SpecLive == Init /\ [][NextLive]_vars /\ WF_vars(CallerStep)

\* ------------------------------------------------------------ properties
Last(seq) == seq[Len(seq)]

\* send_message returned through its final return statements (after teardown)
ReturnedAfterWait == sm_result # <<>> /\ disconnect_calls > 0

\* the last delivered event is a partial-content event with this finish_reason
LastChatFinish(fr) ==
    /\ delivered # <<>>
    /\ Last(delivered).type = "chat"
    /\ Last(delivered).finish_reason = fr

\* the session object carries a tool_call_pending attribute (and it is set)
tool_call_pending == "tool_call_pending" \in ClientAttrs

\* the streaming session failed to connect: send_message returned an error
\* carrying the signature, or constructing/using the client raised
StreamingConnectFailure ==
    \/ raised \in {"ClientInitError", "BadNamespaceError"}
    \/ /\ sm_result # <<>>
       /\ Truthy(sm_result[1].error)
       /\ Contains(sm_result[1].error, ConnectionFailedSig)

\* C1: when the streaming session fails to connect, the exchange ends with
\* exactly one call of send_message_http, and response_data is what that
\* call returned.
C1_FallbackExactlyOnce ==
    (pc = "done" /\ StreamingConnectFailure) =>
        /\ http_calls = 1
        /\ Len(http_returned) = 1
        /\ response_data = << http_returned[1] >>

C1_Witness ==
    /\ pc = "done"
    /\ connect_outcome = "raise"
    /\ sm_result # <<>>
    /\ sm_result[1].error = ConnectionFailedMsg(ConnectExcText)
    /\ http_calls = 1
    /\ response_data = << http_returned[1] >>

\* C2: an error returned by send_message after the wait (error event with any
\* text, timeout, incomplete response) reaches the caller unchanged and the
\* blocking call is never made.
C2_OtherErrorsSurfaceUnchanged ==
    (pc = "done" /\ ReturnedAfterWait /\ sm_result[1].error # NoneText) =>
        /\ http_calls = 0
        /\ response_data = sm_result

\* C3: when connect returned without raising and the transport is not
\* connected at the check, send_message returns "Connection failed: ..." and
\* the selector falls back to the blocking call.
C3_NotConnectedTriggersFallback ==
    (pc = "done" /\ connect_outcome \in {"up", "down"}
       /\ sm_result # <<>> /\ disconnect_calls = 0) =>
        /\ Head(sm_result[1].error) = ConnectionFailedSig
        /\ http_calls = 1

\* C4: when the wait timed out, send_message returns the error
\* "Response timed out" and sio.disconnect was called exactly once.
C4_TimeoutResult ==
    (timed_out /\ sm_result # <<>>) =>
        /\ sm_result[1].error = TimedOutMsg
        /\ disconnect_calls = 1

\* C5: once the connection was opened and the request was being emitted or
\* awaited, control leaves send_message (by return or by exception) only
\* after sio.disconnect was called.
C5_TeardownOnEveryExit ==
    (connect_outcome = "up"
       /\ (ReturnedAfterWait \/ raised \in {"BadNamespaceError", "KeyboardInterrupt"})) =>
        disconnect_calls >= 1

\* C6: no exception leaves send_message.
C6_SendMessageNeverRaises ==
    raised \notin {"BadNamespaceError", "KeyboardInterrupt"}

\* C7: after a partial-content event with finish_reason "tool_calls" the
\* session has tool_call_pending true and response_complete false.
C7_ToolCallsMeansPending ==
    LastChatFinish("tool_calls") => (tool_call_pending /\ ~response_complete)

\* C8: after a partial-content event with finish_reason "end_turn", when the
\* accumulated text holds a well-formed <tool_use> block, tool_call_pending is
\* true and response_complete is false.
C8_EndTurnWithBlockMeansPending ==
    (LastChatFinish("end_turn") /\ parse_tool_use_blocks(full_response) # <<>>) =>
        (tool_call_pending /\ ~response_complete)

\* C9: after a partial-content event with a terminal finish_reason other than
\* "tool_calls", when the accumulated text holds no <tool_use> block, the
\* response is complete, no tool call is pending and the waiting caller is
\* released.
C9_TerminalWithoutBlockCompletes ==
    (/\ delivered # <<>>
     /\ Last(delivered).type = "chat"
     /\ Last(delivered).finish_reason \notin {None, "tool_calls"}
     /\ FindAllFrom(full_response, 1) = <<>>) =>
        (response_complete /\ ~tool_call_pending /\ response_event)

\* C10: when the exchange ended after an explicit "tool_calls" signal, every
\* ToolCall parsed from the accumulated text was executed through
\* McpExecutor.execute exactly once, in source order, with one entry per
\* ToolCall in mcp_results.
C10_ToolsExecutedInOrder ==
    (ReturnedAfterWait /\ LastChatFinish("tool_calls")) =>
        /\ executed = parse_tool_use_blocks(full_response)
        /\ Len(mcp_results) >= Len(executed)

\* a completing event (finish_reason "stop") was delivered
CompletingEventSeen ==
    \E i \in 1..Len(delivered) :
        delivered[i].type = "chat" /\ delivered[i].finish_reason = "stop"

\* an error event was delivered
ErrorEventSeen == \E i \in 1..Len(delivered) : delivered[i].type = "error"

\* C11 (as stated): complete and error are never both set, and neither is set
\* before a terminal signal or the timeout.
C11_CompleteAndErrorExclusive ==
    /\ ~(response_complete /\ error_occurred)
    /\ (response_complete => CompletingEventSeen)
    /\ (error_occurred => (ErrorEventSeen \/ timed_out))

\* C11 (amended): response_complete is set only after a completing event and
\* error_occurred only after an error event or the timeout, so the session is
\* pending while no terminal signal has occurred; both flags can be set at
\* once, and the result built then is the error.
C11_StatusOnlyAfterTerminalSignal ==
    /\ (response_complete => CompletingEventSeen)
    /\ (error_occurred => (ErrorEventSeen \/ timed_out))
    /\ ((ReturnedAfterWait /\ error_occurred) =>
            (sm_result[1].content = EmptyStr /\ sm_result[1].error = error_message))

C11_Witness ==
    /\ response_complete
    /\ error_occurred
    /\ CompletingEventSeen
    /\ ErrorEventSeen
    /\ ReturnedAfterWait
    /\ sm_result[1].content = EmptyStr

\* the conversation log when send_message is called
HistoryBeforeSend ==
    IF interactive_mode THEN add_user_message(<<>>, UserMessage) ELSE <<>>

\* C12: when send_message returns after the wait (complete, error or
\* timeout), the log has gained the user message exactly once, followed by the
\* accumulated agent text exactly once if and only if that text is non-empty.
C12_LogAppendsPerSendMessage ==
    (pc = "sel_check" /\ ReturnedAfterWait) =>
        conversation_history =
            IF full_response # EmptyStr
              THEN add_agent_message(add_user_message(HistoryBeforeSend, UserMessage),
                                     full_response)
              ELSE add_user_message(HistoryBeforeSend, UserMessage)

C12_Witness ==
    /\ pc = "sel_check"
    /\ ReturnedAfterWait
    /\ timed_out
    /\ full_response # EmptyStr
    /\ sm_result[1].error # NoneText
    /\ Last(conversation_history) = [role |-> "agent", content |-> full_response]

\* number of entries of a role in a conversation log
CountRole(h, role) == Cardinality({ i \in 1..Len(h) : h[i].role = role })

\* C13: when an exchange driven by the CLI completes (single-shot or one turn
\* of the interactive loop; streaming, blocking or streaming then fallback),
\* the log holds exactly one user entry for its message and exactly one agent
\* entry, the final text.
C13_OneUserOneAgentEntryPerExchange ==
    (pc = "done" /\ response_data # <<>> /\ ~Truthy(response_data[1].error)) =>
        /\ CountRole(conversation_history, "user") = 1
        /\ CountRole(conversation_history, "agent") = 1
        /\ Last(conversation_history) =
               [role |-> "agent", content |-> response_data[1].content]

\* the events of one type among those delivered, in arrival order
RECURSIVE OfType(_, _)
OfType(evts, type) ==
    IF evts = <<>> THEN <<>>
    ELSE IF Head(evts).type = type
           THEN << Head(evts) >> \o OfType(Tail(evts), type)
           ELSE OfType(Tail(evts), type)

RECURSIVE ConcatContent(_)
ConcatContent(evts) ==
    IF evts = <<>> THEN <<>> ELSE Head(evts).content \o ConcatContent(Tail(evts))

RECURSIVE ConcatCitations(_)
ConcatCitations(evts) ==
    IF evts = <<>> THEN <<>> ELSE Head(evts).citations \o ConcatCitations(Tail(evts))

IsPrefix(a, b) == Len(a) <= Len(b) /\ SubSeq(b, 1, Len(a)) = a

\* the accumulators mirror the delivered events
AccumulatorsMatchEvents ==
    LET chats == OfType(delivered, "chat")
        mcps  == OfType(delivered, "mcp")
    IN  /\ full_response = ConcatContent(chats)
        /\ citations = ConcatCitations(chats)
        /\ Len(mcp_results) = Len(mcps)
        /\ \A k \in 1..Len(mcps) : mcp_results[k].v \in {mcps[k].parsed, mcps[k].block}
        /\ ((ReturnedAfterWait /\ sm_result[1].error = NoneText) =>
               /\ sm_result[1].content = full_response
               /\ sm_result[1].citations = citations
               /\ sm_result[1].mcp_results = mcp_results)

\* C14: during an exchange full_response is the concatenation, in arrival
\* order, of the content of the partial-content events received so far,
\* citations the concatenation of their citation lists, mcp_results has one
\* entry per tool-completion event in arrival order; the accumulators only
\* grow, and a successful result carries their final values.
C14_AccumulatorsFollowEvents ==
    /\ []AccumulatorsMatchEvents
    /\ [][/\ IsPrefix(full_response, full_response')
          /\ IsPrefix(citations, citations')
          /\ IsPrefix(mcp_results, mcp_results')]_vars

C14_Witness ==
    /\ ReturnedAfterWait
    /\ sm_result[1].error = NoneText
    /\ Len(OfType(delivered, "chat")) >= 2
    /\ Len(OfType(delivered, "mcp")) >= 1
    /\ Len(sm_result[1].content) >= 2
    /\ sm_result[1].mcp_results # <<>>

\* C15: if streaming is not requested, or the streaming dependency failed to
\* load, the exchange goes through the blocking call (exactly one call, whose
\* result is the exchange's result) and no streaming session is constructed
\* or connected.
C15_NoStreamingMeansBlockingOnly ==
    ~(args_streaming /\ WEBSOCKET_AVAILABLE) =>
        /\ pc \in {"select", "http_only", "done"}
        /\ connect_outcome = None
        /\ ~sio_connected
        /\ sm_result = <<>>
        /\ delivered = <<>>
        /\ raised = None
        /\ (pc = "done" => (http_calls = 1 /\ response_data = http_returned))

C15_Witness ==
    /\ args_streaming
    /\ ~WEBSOCKET_AVAILABLE
    /\ pc = "done"
    /\ http_calls = 1
    /\ response_data # <<>>

\* C16: the result of every exchange carries either non-empty content with
\* no error, or a non-empty error string with empty content, never both and
\* never neither.
C16_ContentXorError ==
    (pc = "done" /\ response_data # <<>>) =>
        \/ (response_data[1].content # EmptyStr /\ ~Truthy(response_data[1].error))
        \/ (response_data[1].content = EmptyStr /\ Truthy(response_data[1].error))

\* --- what the text itself says, independently of how the parser scans it
IsOpen(s, i)  == Lower(s[i]) = "<tool_use>"

IsClose(s, i) == Lower(s[i]) = "</tool_use>"

\* positions where a block starts: an open marker with a close marker after
\* it, not lying inside an earlier block
BlockStarts(s) ==
    { a \in 1..Len(s) :
        /\ IsOpen(s, a)
        /\ \E c \in (a + 1)..Len(s) : IsClose(s, c)
        /\ \A b \in 1..(a - 1) :
              IsOpen(s, b) => \E c \in (b + 1)..(a - 1) : IsClose(s, c) }

\* the block that starts at a: up to the first close marker after a
BlockAt(s, a) ==
    LET e == CHOOSE c \in (a + 1)..Len(s) :
                 IsClose(s, c) /\ \A d \in (a + 1)..(c - 1) : ~IsClose(s, d)
    IN  SubSeq(s, a, e)

\* text without its leading and trailing whitespace
Trim(t) ==
    LET N == { i \in 1..Len(t) : t[i] \notin Whitespace }
    IN  IF N = {} THEN <<>>
        ELSE SubSeq(t, CHOOSE i \in N : \A j \in N : i <= j,
                       CHOOSE i \in N : \A j \in N : j <= i)

\* the block's own sub-tag text: first occurrence of the field, trimmed
FieldText(blk, tag) ==
    LET P == { p \in (1..Len(blk)) \X (1..Len(blk)) :
                 /\ p[1] < p[2]
                 /\ Lower(blk[p[1]]) = OpenTag(tag)
                 /\ Lower(blk[p[2]]) = CloseTag(tag)
                 /\ \A k \in 1..(p[1] - 1) : Lower(blk[k]) # OpenTag(tag)
                 /\ \A k \in (p[1] + 1)..(p[2] - 1) : Lower(blk[k]) # CloseTag(tag) }
    IN  IF P = {} THEN EmptyStr
        ELSE LET p == CHOOSE q \in P : TRUE IN Trim(SubSeq(blk, p[1] + 1, p[2] - 1))

WellFormed(blk) == FieldText(blk, "server") # EmptyStr /\ FieldText(blk, "tool") # EmptyStr

RECURSIVE Ascending(_)
Ascending(S) ==
    IF S = {} THEN <<>>
    ELSE LET m == CHOOSE x \in S : \A y \in S : x <= y
         IN  << m >> \o Ascending(S \ {m})

\* the well-formed blocks of a text, in the order they appear
WellFormedBlocks(s) ==
    LET starts == Ascending({ a \in BlockStarts(s) : WellFormed(BlockAt(s, a)) })
    IN  [k \in 1..Len(starts) |-> BlockAt(s, starts[k])]

\* C17: for any input text parse_tool_use_blocks returns a list holding
\* exactly one ToolCall per well-formed block, in the order the well-formed
\* blocks appear, with server and tool equal to that block's own sub-tag
\* text; malformed blocks contribute nothing and text with no block yields
\* the empty list.
C17_OneToolCallPerWellFormedBlock ==
    results # <<>> =>
        LET wf == WellFormedBlocks(content)
        IN  /\ Len(results[1]) = Len(wf)
            /\ \A k \in 1..Len(wf) :
                  k <= Len(results[1]) =>
                     /\ results[1][k].server = FieldText(wf[k], "server")
                     /\ results[1][k].tool = FieldText(wf[k], "tool")

\* what kind of JSON text this is, by the JSON grammar
JsonClass(text) ==
    CASE text \in { <<"{}">>, <<"{\"k\":\"v\"}">> }                        -> "object"
      [] text \in { <<"[1,2]">>, <<"null">>, << HugeInt >>, << DeepNesting >> } -> "other"
      [] OTHER                                                           -> "invalid"

\* the arguments the ToolCall of a well-formed block is to carry
ExpectedArguments(blk) ==
    LET t == FieldText(blk, "arguments")
    IN  IF t = EmptyStr THEN EmptyMapping
        ELSE IF JsonClass(t) = "object" THEN [raw |-> FALSE, v |-> t]
        ELSE [raw |-> TRUE, v |-> t]

\* C18: for every block with server and tool present the ToolCall's
\* arguments is the parsed object when the arguments text is a JSON object,
\* the empty mapping when the field is absent or empty, and {"raw": text}
\* when the text is invalid JSON or valid JSON that is not an object; the
\* block is never dropped because of its arguments.
C18_ArgumentsDegradeToRaw ==
    results # <<>> =>
        LET wf == WellFormedBlocks(content)
        IN  /\ Len(results[1]) = Len(wf)
            /\ \A k \in 1..Len(wf) :
                  k <= Len(results[1]) =>
                     results[1][k].arguments = ExpectedArguments(wf[k])

\* the keys of a mapping given by its items
Keys(mapping) == { kv[1] : kv \in mapping }

\* C19: McpExecutor.execute never raises; a non-200 status gives a mapping
\* with key "error" naming the status code and key "detail" holding the body
\* text; a transport fault or an undecodable 200 body gives a mapping with
\* key "error" describing the fault.
C19_ExecuteNeverRaises ==
    /\ ~exec_raised
    /\ Len(exec_returned) = Len(executed)
    /\ \A i \in 1..Len(exec_returned) :
          LET r == mcp_responses[i]
              out == exec_returned[i]
          IN  /\ (~r.raises /\ r.status_code # 200) =>
                    /\ Keys(out) = {"error", "detail"}
                    /\ \E kv \in out :
                          kv[1] = "error" /\ Contains(kv[2], StatusText(r.status_code))
                    /\ << "detail", r.text >> \in out
              /\ (r.raises \/ (r.status_code = 200 /\ ~r.decodable)) =>
                    out = { << "error", r.exc >> }

C19_Witness ==
    /\ Len(exec_returned) = MaxCalls
    /\ \E i \in 1..Len(mcp_responses) : mcp_responses[i].raises
    /\ \E i \in 1..Len(mcp_responses) :
          ~mcp_responses[i].raises /\ mcp_responses[i].status_code = 500
    /\ ~exec_raised

HasId(tool_call) == tool_call.id # NoneText

\* C20: each execute call sends exactly one request carrying the agent id,
\* server, tool and arguments of its ToolCall, plus toolCallId if and only if
\* the ToolCall has an id; on status 200 it returns the decoded JSON unchanged
\* when it is a mapping and {"result": payload} otherwise; the executor keeps
\* no state between calls, so a result depends only on that call's ToolCall
\* and response.
C20_OneRequestPerCallStateless ==
    /\ Len(posted) = Len(executed)
    /\ mcp_executor = McpExecutorAttrs
    /\ \A i \in 1..Len(posted) :
          LET tc == executed[i]
              sent == posted[i].json
              r == mcp_responses[i]
          IN  /\ sent.agentId = McpExecutorAttrs.agent_uuid
              /\ sent.server = tc.server
              /\ sent.tool = tc.tool
              /\ sent.arguments = tc.arguments
              /\ ("toolCallId" \in DOMAIN sent) <=> HasId(tc)
              /\ HasId(tc) => sent.toolCallId = tc.id
              /\ DOMAIN sent \subseteq {"agentId", "server", "tool", "arguments", "toolCallId"}
              /\ (~r.raises /\ r.status_code = 200 /\ r.decodable /\ i <= Len(exec_returned)) =>
                    exec_returned[i] = IF r.body.isdict THEN r.body.items
                                       ELSE { << "result", r.body.value >> }
    /\ \A i, j \in 1..Len(exec_returned) :
          (executed[i] = executed[j] /\ mcp_responses[i] = mcp_responses[j]) =>
              (exec_returned[i] = exec_returned[j] /\ DOMAIN posted[i].json = DOMAIN posted[j].json)

C20_Witness ==
    /\ Len(posted) = MaxCalls
    /\ HasId(executed[1])
    /\ ~HasId(executed[2])
    /\ mcp_responses[1].status_code = 200 /\ mcp_responses[1].decodable
    /\ ~mcp_responses[1].body.isdict
    /\ mcp_responses[2].status_code = 200 /\ mcp_responses[2].decodable
    /\ mcp_responses[2].body.isdict
    /\ exec_returned[1] = { << "result", <<"[1,2]">> >> }

\* role and content of the log entries written before the current exchange
PriorHistory == <<>>

\* C21: the outbound streaming request carries the full message list: the
\* system/master prompt first, then the prior conversation history in order,
\* then the new user message as the last element.
C21_RequestCarriesFullMessageList ==
    emitted # <<>> =>
        LET m == emitted[1].messages
        IN  /\ Len(m) >= 2
            /\ m[1] = [role |-> "system", content |-> agent_config.masterPrompt]
            /\ Last(m) = [role |-> "user", content |-> UserMessage]
            /\ SubSeq(m, 2, Len(m) - 1) = PriorHistory

Got401(req) == ~req.met.raises /\ req.met.status_code = 401

\* C22: when an API call made with a session manager receives status 401 the
\* token refresh is attempted exactly once and, if it yields a new token, the
\* request is retried exactly once with the new bearer token; the call never
\* issues more than two requests or more than one refresh, and a failed
\* refresh causes no retry.
C22_RefreshOnceRetryOnce ==
    /\ Len(api_requests) <= 2
    /\ Len(refresh_calls) <= 1
    /\ pc = "api_done" =>
          /\ Len(api_requests) >= 1
          /\ IF with_session_manager /\ Got401(api_requests[1])
               THEN /\ Len(refresh_calls) = 1
                    /\ IF refresh_calls[1].returned # None
                         THEN /\ Len(api_requests) = 2
                              /\ api_requests[2].bearer = refresh_calls[1].returned
                              /\ api_requests[2].bearer # api_requests[1].bearer
                         ELSE Len(api_requests) = 1
               ELSE Len(refresh_calls) = 0 /\ Len(api_requests) = 1

C22_Witness ==
    /\ pc = "api_done"
    /\ with_session_manager
    /\ Len(api_requests) = 2
    /\ Got401(api_requests[1])
    /\ Got401(api_requests[2])
    /\ Len(refresh_calls) = 1
    /\ api_requests[2].bearer = "new_token"

\* the refresh endpoint answered 200 with an access token (a non-empty one)
AnsweredWithToken(call) ==
    /\ call.posted
    /\ ~call.met.raises
    /\ call.met.status_code = 200
    /\ call.met.isdict
    /\ call.met.accessToken \notin { None, "" }

\* C23: refresh_access_token returns the new access token and stores it in
\* the session, keeping the stored cookies and other keys, exactly when the
\* refresh endpoint answers 200 with an accessToken; in every other case it
\* returns None and leaves the stored session unchanged, and with no stored
\* cookies it sends no request at all.
C23_RefreshStoresTokenOnlyOnSuccess ==
    /\ refresh_calls = <<>> => (session_data = session_file /\ session_data \in Sessions)
    /\ \A i \in 1..Len(refresh_calls) :
          LET call == refresh_calls[i]
          IN  /\ call.posted <=> HasCookies(call.before)
              /\ IF AnsweredWithToken(call)
                   THEN /\ call.returned = call.met.accessToken
                        /\ session_data.access_token = call.returned
                        /\ session_data.cookies = call.before.cookies
                        /\ session_data.email = call.before.email
                   ELSE /\ call.returned = None
                        /\ session_data = call.before
                        /\ session_file = call.before

C23_Witness ==
    /\ Len(refresh_calls) = 1
    /\ AnsweredWithToken(refresh_calls[1])
    /\ session_data.access_token = "new_token"
    /\ session_data.cookies = "rt_abc"
    /\ session_file = session_data

\* main() has decided between the interactive loop, the single exchange and
\* the "No message provided" exit
ModeSettled ==
    \/ pc \in { "interactive_loop", "select" }
    \/ (pc = "exit" /\ exit_message = NoMessageMsg)

TakenFrom(tc, blk) ==
    /\ tc.server = FieldText(blk, "server")
    /\ tc.tool = FieldText(blk, "tool")
    /\ tc.id = IF FieldText(blk, "id") = EmptyStr THEN NoneText ELSE FieldText(blk, "id")
    /\ IF FieldText(blk, "arguments") = EmptyStr
         THEN tc.arguments = EmptyMapping
         ELSE tc.arguments.v = FieldText(blk, "arguments")

\* C25: each block runs from an open marker to the first close marker after
\* it (case-insensitively) and each field is the first occurrence of its
\* sub-marker in the block, whatever the order; so every returned ToolCall
\* takes all its fields from one and the same block of the input, the
\* ToolCalls following the order of their blocks.
C25_FieldsFromOneBlock ==
    results # <<>> =>
        LET starts == Ascending(BlockStarts(content))
            res == results[1]
        IN  \E f \in [1..Len(res) -> 1..Len(starts)] :
              /\ \A i, j \in 1..Len(res) : i < j => f[i] < f[j]
              /\ \A k \in 1..Len(res) : TakenFrom(res[k], BlockAt(content, starts[f[k]]))

\* an unclosed open marker with its own <server> precedes a well-formed block
C25_Witness ==
    /\ content = <<"<tool_use>", "<server>", "x", "</server>">> \o ToolBlock
    /\ results # <<>>
    /\ Len(results[1]) = 1
    /\ results[1][1].server = <<"x">>
    /\ results[1][1].tool = <<"t1">>

\* C26: send_message eventually returns for every sequence of inbound
\* events, the empty one and ones without a terminal finish_reason included
\* (short of an operator interrupt); the wait ends on a completing event, an
\* error event, a transport disconnect or the expiry of the timeout.
C26_SendMessageEventuallyReturns ==
    /\ [](pc = "sm_disc" =>
            (timed_out \/ CompletingEventSeen \/ ErrorEventSeen \/ ~sio_connected))
    /\ (pc = "sm_wait") ~> (ReturnedAfterWait \/ raised = "KeyboardInterrupt")

\* returned after the timeout, having received only partial-content events
C26_Witness ==
    /\ ReturnedAfterWait
    /\ timed_out
    /\ Len(delivered) = MaxEvents
    /\ \A i \in 1..Len(delivered) :
          delivered[i].type = "chat" /\ delivered[i].finish_reason # "stop"

\* the kind of fault an error payload reports, by its numeric code
FaultClass(data) ==
    IF data.code = 401 THEN "authentication"
    ELSE IF data.code = 400 /\ Contains(data.error, "not publically shared")
         THEN "access"
         ELSE "generic"

\* part occurs in text as a contiguous run of tokens
ContainsText(text, part) ==
    \E i \in 1..(Len(text) - Len(part) + 1) : SubSeq(text, i, i + Len(part) - 1) = part

\* C27: an error event sets the session's error with the server's message
\* text preserved, and the code field tells an authentication fault (401), an
\* access fault (400, agent not shared) and a generic fault apart, each with
\* its own message: no payload of another kind yields the message set here.
C27_ErrorEventClassified ==
    (delivered # <<>> /\ ~timed_out) =>
        LET data == Last(delivered)
        IN  /\ error_occurred
            /\ ContainsText(error_message, data.error)
            /\ \A other \in CodedErrorEvents :
                   FaultClass(other) # FaultClass(data) => ErrorText(other) # error_message

\* the error texts the delivered error events yield
ErrorTextsSeen ==
    { ErrorText(delivered[i]) : i \in { j \in 1..Len(delivered) : delivered[j].type = "error" } }

\* C28: when an error event was received during the exchange, the result of
\* send_message is an error with empty content, whether or not a completing
\* event was received before or after it; the accumulated text is not in the
\* result but is in the conversation log.
C28_ErrorEventWinsOverCompletion ==
    (ReturnedAfterWait /\ ErrorEventSeen) =>
        /\ sm_result[1].error \in ErrorTextsSeen \cup {TimedOutMsg}
        /\ sm_result[1].content = EmptyStr
        /\ sm_result[1].citations = <<>>
        /\ sm_result[1].mcp_results = <<>>
        /\ full_response # EmptyStr =>
             \E i \in 1..Len(conversation_history) :
                 conversation_history[i] = [role |-> "agent", content |-> full_response]

\* a completing event, then an error event, with text accumulated
C28_Witness ==
    /\ ReturnedAfterWait
    /\ Len(delivered) >= 2
    /\ delivered[1].type = "chat" /\ delivered[1].finish_reason = "stop"
    /\ delivered[1].content # EmptyStr
    /\ delivered[2].type = "error"
    /\ sm_result[1].content = EmptyStr
    /\ sm_result[1].error = ErrorText(delivered[2])
    /\ Last(conversation_history).role = "agent"

\* C29: when the transport drops while the caller waits and no completing or
\* error event was received, the wait is over at once (the wake-up signal is
\* set, so the timeout branch cannot be taken), send_message returns
\* "Response incomplete" with empty content, and the selector keeps that
\* result without making the blocking call.
C29_DisconnectEndsWaitIncomplete ==
    /\ (pc = "sm_wait" /\ ~sio_connected) => (response_event /\ ~ENABLED WaitTimeout)
    /\ (ReturnedAfterWait /\ ~timed_out /\ ~CompletingEventSeen /\ ~ErrorEventSeen) =>
          /\ sm_result = << AgentResponse(EmptyStr, <<>>, IncompleteMsg, <<>>) >>
          /\ ~IsFallbackTrigger(sm_result[1])
          /\ http_calls = 0
          /\ pc = "done" => response_data = sm_result

\* text arrived, then the transport dropped, and the exchange is over
C29_Witness ==
    /\ pc = "done"
    /\ ReturnedAfterWait
    /\ ~timed_out
    /\ delivered # <<>>
    /\ ~CompletingEventSeen
    /\ ~ErrorEventSeen
    /\ full_response # EmptyStr
    /\ response_data = << AgentResponse(EmptyStr, <<>>, IncompleteMsg, <<>>) >>
    /\ http_calls = 0

\* C30: each exchange owns its state. Once send_message of an exchange has
\* begun, the text, citations, tool results, flags and wake-up signal of its
\* client come from the events of its own connection only, whatever an earlier
\* exchange left behind and whatever callbacks of the earlier connection run
\* late; its result holds nothing of an earlier exchange.
C30_ExchangeOwnsItsState ==
    connect_outcome # None =>
        /\ AccumulatorsMatchEvents
        /\ response_complete => CompletingEventSeen
        /\ error_occurred => (ErrorEventSeen \/ timed_out)
        /\ response_event => (CompletingEventSeen \/ ErrorEventSeen \/ ~sio_connected)
        /\ ReturnedAfterWait =>
             sm_result[1].error \in {NoneText, TimedOutMsg, IncompleteMsg} \cup ErrorTextsSeen

\* the exchange before ended in an error after text; its connection then
\* delivered a completing event late; the second exchange returns its own text
C30_Witness ==
    /\ turn = MaxTurns
    /\ pc = "done"
    /\ ReturnedAfterWait
    /\ prev_client # <<>>
    /\ prev_client[1].error_occurred
    /\ Contains(prev_client[1].full_response, "late text")
    /\ late_delivered # <<>>
    /\ sm_result[1].content = PlainText
    /\ sm_result[1].error = NoneText
    /\ sm_result[1].citations = <<"c1">>

====
